---- MODULE Spec2Model ----
(***************************************************************************)
(* A model of sled-table: typed tables sharing one ordered byte-keyed      *)
(* sled::Tree, the unsigned binary search that emulates max / pred on a    *)
(* forward-only scan, the Reversible pair and the Timestamped pair.        *)
(*                                                                         *)
(* One "byte" of the model is one bit: a key of KeyBits bits is encoded    *)
(* big-endian (bytekey, order preserving), a value little-endian (bincode, *)
(* not order preserving).  The tree orders physical keys as byte strings.  *)
(***************************************************************************)
EXTENDS Integers, Sequences, FiniteSets, TLC

VARIABLES
  store,   \* the sled::Tree: a function from physical key bytes to value bytes
  last     \* the last call made on the tree and what it returned

vars == <<store, last>>

---------------------------------------------------------------------------
(* Bounds of the model *)

\* width w of the unsigned integer domain of the keys (u8 has 8)
KeyBits == 2
\* the number of entries one table may hold
MaxEntries == 2

---------------------------------------------------------------------------
(* unsigned_binary_search.rs: the UnsignedInteger constants *)

MAX == 2^KeyBits - 1
ONE == 1
ZERO == 0

UInt == ZERO..MAX

---------------------------------------------------------------------------
(* Codecs (bytekey for ids and keys, bincode for values) *)

\* a key encoding with the least significant digit first, which does not
\* preserve the order of the keys
EncBE_least_first(u) == [i \in 1..KeyBits |-> (u \div 2^(i - 1)) % 2]

\* bytekey: an unsigned integer as KeyBits digits, most significant first
EncBE(u) == [i \in 1..KeyBits |-> (u \div 2^(KeyBits - i)) % 2]

RECURSIVE DecBE(_)
DecBE(bytes) ==
  IF bytes = <<>> THEN 0
  ELSE 2 * DecBE(SubSeq(bytes, 1, Len(bytes) - 1)) + bytes[Len(bytes)]

\* bincode: an unsigned integer as KeyBits digits, least significant first
EncLE(u) == [i \in 1..KeyBits |-> (u \div 2^(i - 1)) % 2]

RECURSIVE DecLE(_)
DecLE(bytes) ==
  IF bytes = <<>> THEN 0 ELSE bytes[1] + 2 * DecLE(Tail(bytes))

\* a table id is one byte
EncId(id) == <<id>>
DecId(bytes) == bytes[1]

\* Ord for byte strings, the order of the tree (tests/sled.rs)
BytesLess(a, b) ==
  \E i \in 1..Len(b) :
    /\ \A j \in 1..(i - 1) : j <= Len(a) /\ a[j] = b[j]
    /\ (i > Len(a) \/ a[i] < b[i])

---------------------------------------------------------------------------
(* The sled::Tree the tables share *)

\* the element of a set of one element: the value of an expression,
\* computed once
TheOne(S) == CHOOSE x \in S : TRUE

None == [tag |-> "none"]
Some(x) == [tag |-> "some", val |-> x]
Panic == [tag |-> "panic"]
Err(kind) == [tag |-> "err", kind |-> kind]

\* what the tree holds under a key it fails to read: no byte string
IoFailure == <<2>>

TreeGet(s, kb) == IF kb \in DOMAIN s THEN Some(s[kb]) ELSE None

TreeSet(s, kb, vb) ==
  [pk \in DOMAIN s \cup {kb} |-> IF pk = kb THEN vb ELSE s[pk]]

TreeDel(s, kb) == [pk \in DOMAIN s \ {kb} |-> s[pk]]

MinBytes(S) == CHOOSE a \in S : \A b \in S : a = b \/ BytesLess(a, b)

\* tree.scan(start): a lazy cursor over the keys >= start, ascending
TreeScan(start) == [lo |-> start, strict |-> FALSE]

\* sled::Iter::next: the entry with the least key not yet passed, and the
\* cursor moved behind it
TreeIterNext(s, it) ==
  LET ahead == {pk \in DOMAIN s :
                  IF it.strict THEN BytesLess(it.lo, pk) ELSE ~BytesLess(pk, it.lo)}
  IN  IF ahead = {} THEN [item |-> None, iter |-> it]
      ELSE LET m == MinBytes(ahead)
           IN  [item |-> IF s[m] = IoFailure THEN Err("store")
                         ELSE Some(<<m, s[m]>>),
                iter |-> [lo |-> m, strict |-> TRUE]]

---------------------------------------------------------------------------
(* tests/timestamped.rs: UnixNanos, a signed timestamp, and Foo, a value   *)
(* carrying its timestamp                                                  *)

HalfRange == 2^(KeyBits - 1)

\* UnixNanos(i64), scaled to KeyBits bits
UnixNanos == (0 - HalfRange)..(HalfRange - 1)

\* UnsignedBinarySearchKey for UnixNanos
UnixNanosFromUnsigned(u) ==
  IF u < HalfRange THEN u - (HalfRange - 1) - 1 ELSE u - HalfRange

\* MinKey for UnixNanos and for the unsigned integers
UnixNanosMinKey == 0 - HalfRange
UIntMinKey == ZERO

\* bytekey of a signed integer: the sign bit flipped, most significant first
EncTs(t) == EncBE(t + HalfRange)
DecTs(bytes) == DecBE(bytes) - HalfRange

\* bincode of a signed integer: two's complement, least significant first
EncTsLE(t) == EncLE(IF t < 0 THEN t + 2 * HalfRange ELSE t)
DecTsLE(bytes) ==
  LET u == DecLE(bytes) IN IF u >= HalfRange THEN u - 2 * HalfRange ELSE u

\* Foo { timestamp: UnixNanos, data: Vec<u8> }
Foo(t, d) == [timestamp |-> t, data |-> d]

\* Timestamped::value_timestamp for FooTable
value_timestamp(value) == value.timestamp

\* timestamp::Key { timestamp, key }
TsKey(t, k) == [timestamp |-> t, key |-> k]

---------------------------------------------------------------------------
(* lib.rs: Table, the static description of a table *)

\* a table is its ID and the types of its keys and values
Table(id, ktype, vtype) == [id |-> id, key |-> ktype, value |-> vtype]

EncKey(T, k) ==
  CASE T.key = "uint"  -> EncBE(k)
    [] T.key = "tskey" -> EncTs(k.timestamp) \o EncBE(k.key)

DecKey(T, bytes) ==
  CASE T.key = "uint"  -> DecBE(bytes)
    [] T.key = "tskey" ->
         TsKey(DecTs(SubSeq(bytes, 1, KeyBits)),
               DecBE(SubSeq(bytes, KeyBits + 1, Len(bytes))))

EncValue(T, v) ==
  CASE T.value = "uint" -> EncLE(v)
    [] T.value = "unit" -> <<>>
    [] T.value = "foo"  -> EncTsLE(v.timestamp) \o <<Len(v.data)>> \o v.data

DecValue(T, bytes) ==
  CASE T.value = "uint" -> DecLE(bytes)
    [] T.value = "unit" -> <<>>
    [] T.value = "foo"  ->
         Foo(DecTsLE(SubSeq(bytes, 1, KeyBits)),
             SubSeq(bytes, KeyBits + 2, Len(bytes)))

\* bytekey::deserialize and bincode::deserialize fail on a byte string that
\* ends before the value does
KeyDecodes(T, bytes) ==
  CASE T.key = "uint"  -> Len(bytes) >= KeyBits
    [] T.key = "tskey" -> Len(bytes) >= 2 * KeyBits

ValueDecodes(T, bytes) ==
  CASE T.value = "uint" -> Len(bytes) >= KeyBits
    [] T.value = "unit" -> TRUE
    [] T.value = "foo"  ->
         IF Len(bytes) < KeyBits + 1 THEN FALSE
         ELSE Len(bytes) >= KeyBits + 1 + bytes[KeyBits + 1]

\* PartialOrd of the key type (derived, field by field, for timestamp::Key)
KeyLess(T, a, b) ==
  CASE T.key = "uint"  -> a < b
    [] T.key = "tskey" ->
         \/ a.timestamp < b.timestamp
         \/ a.timestamp = b.timestamp /\ a.key < b.key

KeyLessEq(T, a, b) == a = b \/ KeyLess(T, a, b)

\* UnsignedBinarySearchKey::from_unsigned_integer of the key type
from_unsigned_integer(T, u) ==
  CASE T.key = "uint"  -> u
    [] T.key = "tskey" -> TsKey(UnixNanosFromUnsigned(u), UIntMinKey)

\* write_key without the table ID
write_key_without_id(T, key) == EncKey(T, key)

\* write_key with the key before the id
write_key_id_last(T, key) == EncKey(T, key) \o EncId(T.id)

\* write_key: the table ID followed by the key
write_key(T, key) == EncId(T.id) \o EncKey(T, key)

---------------------------------------------------------------------------
(* lib.rs: Reader, Writer and Iter of one table *)

Ok == [tag |-> "ok"]

\* Reader::get
Reader_get(s, T, key) ==
  LET maybe_value_bytes == TreeGet(s, write_key(T, key))
  IN  IF maybe_value_bytes = None THEN None
      ELSE Some(DecValue(T, maybe_value_bytes.val))

\* Reader::iter: scan the tree from the encoded table ID
Reader_iter(T) ==
  LET start_key_bytes == EncId(T.id)
  IN  [id_len |-> Len(start_key_bytes), iter |-> TreeScan(start_key_bytes)]

\* Reader::scan that starts at the table's ID, whatever the key
Reader_scan_from_id(T, key) ==
  [id_len |-> Len(EncId(T.id)), iter |-> TreeScan(EncId(T.id))]

\* Reader::scan: scan the tree from the physical key of `key`
Reader_scan(T, key) ==
  [id_len |-> Len(EncId(T.id)), iter |-> TreeScan(write_key(T, key))]

\* Iter::next that goes on to the next entry when a key or a value does not
\* decode
RECURSIVE Iter_next_skip_undecodable(_, _, _)
Iter_next_skip_undecodable(s, T, it) ==
  LET raw == TreeIterNext(s, it.iter)
      moved == [id_len |-> it.id_len, iter |-> raw.iter]
  IN  IF raw.item = None THEN [item |-> None, iter |-> moved]
      ELSE IF raw.item.tag = "err" THEN [item |-> raw.item, iter |-> moved]
      ELSE LET id_key_bytes == raw.item.val[1]
               value_bytes == raw.item.val[2]
               id_bytes == SubSeq(id_key_bytes, 1, it.id_len)
               key_bytes == SubSeq(id_key_bytes, it.id_len + 1, Len(id_key_bytes))
           IN  IF T.id # DecId(id_bytes) THEN [item |-> None, iter |-> moved]
               ELSE IF ~KeyDecodes(T, key_bytes) \/ ~ValueDecodes(T, value_bytes)
               THEN Iter_next_skip_undecodable(s, T, moved)
               ELSE [item |-> Some(<<DecKey(T, key_bytes), DecValue(T, value_bytes)>>),
                     iter |-> moved]

\* Iter::next without the comparison of the ID: an entry of the next table
\* is decoded and yielded
Iter_next_no_boundary(s, T, it) ==
  LET raw == TreeIterNext(s, it.iter)
      moved == [id_len |-> it.id_len, iter |-> raw.iter]
  IN  IF raw.item = None THEN [item |-> None, iter |-> moved]
      ELSE LET id_key_bytes == raw.item.val[1]
               key_bytes == SubSeq(id_key_bytes, it.id_len + 1, Len(id_key_bytes))
           IN  [item |-> Some(<<DecKey(T, key_bytes), DecValue(T, raw.item.val[2])>>),
                iter |-> moved]

\* Iter::next: the next entry of the tree, decoded; the end of the sequence
\* as soon as the entry carries another table's ID; an error when the tree
\* fails to read the entry or its key or value does not decode
Iter_next(s, T, it) ==
  TheOne({
    LET moved == [id_len |-> it.id_len, iter |-> raw.iter]
    IN  IF raw.item = None THEN [item |-> None, iter |-> moved]
        ELSE IF raw.item.tag = "err" THEN [item |-> raw.item, iter |-> moved]
        ELSE LET id_key_bytes == raw.item.val[1]
                 value_bytes == raw.item.val[2]
                 id_bytes == SubSeq(id_key_bytes, 1, it.id_len)
                 key_bytes == SubSeq(id_key_bytes, it.id_len + 1, Len(id_key_bytes))
             IN  IF T.id # DecId(id_bytes) THEN [item |-> None, iter |-> moved]
                 ELSE IF ~KeyDecodes(T, key_bytes)
                 THEN [item |-> Err("key"), iter |-> moved]
                 ELSE IF ~ValueDecodes(T, value_bytes)
                 THEN [item |-> Err("value"), iter |-> moved]
                 ELSE [item |-> Some(<<DecKey(T, key_bytes), DecValue(T, value_bytes)>>),
                       iter |-> moved] :
    raw \in {TreeIterNext(s, it.iter)}})

\* what a caller collects from an iterator: every item up to the first None
RECURSIVE Iter_collect(_, _, _)
Iter_collect(s, T, it) ==
  TheOne({IF r.item = None THEN <<>>
          ELSE <<r.item.val>> \o Iter_collect(s, T, r.iter) :
          r \in {Iter_next(s, T, it)}})

\* the items of an iterator as next() returns them, Ok or Err, up to the
\* first None
RECURSIVE Iter_results(_, _, _)
Iter_results(s, T, it) ==
  TheOne({IF r.item = None THEN <<>>
          ELSE <<r.item>> \o Iter_results(s, T, r.iter) :
          r \in {Iter_next(s, T, it)}})

\* Reader::min
Reader_min(s, T) == Iter_next(s, T, Reader_iter(T)).item

\* Reader::succ_incl
Reader_succ_incl(s, T, key) == Iter_next(s, T, Reader_scan(T, key)).item

\* Reader::succ: the first scanned entry whose key is not `key`
RECURSIVE succ_loop(_, _, _, _)
succ_loop(s, T, key, it) ==
  LET r == Iter_next(s, T, it)
  IN  IF r.item = None THEN None
      ELSE IF r.item.tag = "err" THEN r.item
      ELSE IF r.item.val[1] = key THEN succ_loop(s, T, key, r.iter)
      ELSE r.item

\* Reader::succ that does not skip the entry at `key`
Reader_succ_no_skip(s, T, key) == Iter_next(s, T, Reader_scan(T, key)).item

Reader_succ(s, T, key) == succ_loop(s, T, key, Reader_scan(T, key))

\* Writer::set that keeps the value of a key already set
Writer_set_insert_only(s, T, key, value) ==
  IF write_key(T, key) \in DOMAIN s THEN s
  ELSE TreeSet(s, write_key(T, key), EncValue(T, value))

\* Writer::set
Writer_set(s, T, key, value) == TreeSet(s, write_key(T, key), EncValue(T, value))

\* Writer::del that returns the value and leaves the entry in the tree
Writer_del_keeps_entry(s, T, key) ==
  LET maybe_value_bytes == TreeGet(s, write_key(T, key))
  IN  [store |-> s,
       ret |-> IF maybe_value_bytes = None THEN None
               ELSE Some(DecValue(T, maybe_value_bytes.val))]

\* Writer::del: the tree without the key, and the value it held
Writer_del(s, T, key) ==
  LET key_bytes == write_key(T, key)
      maybe_value_bytes == TreeGet(s, key_bytes)
  IN  [store |-> TreeDel(s, key_bytes),
       ret |-> IF maybe_value_bytes = None THEN None
               ELSE Some(DecValue(T, maybe_value_bytes.val))]

---------------------------------------------------------------------------
(* unsigned_binary_search.rs *)

\* the integer arithmetic of the search: the domain has KeyBits bits, a sum
\* or difference outside it is an overflow (and wraps in a release build)
Wrap(n) == n % (MAX + 1)
Overflows(n) == n < ZERO \/ n > MAX

\* one run of the search loop: the candidate so far, the probes made, and
\* whether attempt + step or attempt - step left the domain
SearchState(greatest, probes, overflow) ==
  [greatest |-> greatest, probes |-> probes, overflow |-> overflow]

\* find_pred, lines 114-131: while step != zero
RECURSIVE find_pred_loop(_, _, _, _, _, _, _)
find_pred_loop(s, T, key, inclusive, attempt, step0, acc) ==
  IF step0 = ZERO THEN acc
  ELSE
    LET step == step0 \div (ONE + ONE)
        attempt_key == from_unsigned_integer(T, attempt)
        found == Iter_next(s, T, Reader_scan(T, attempt_key)).item
        up == /\ found # None
              /\ IF inclusive THEN KeyLessEq(T, found.val[1], key)
                 ELSE KeyLess(T, found.val[1], key)
        moved == IF up THEN attempt + step ELSE attempt - step
    IN  find_pred_loop(s, T, key, inclusive, Wrap(moved), step,
          SearchState(IF up THEN found ELSE acc.greatest,
                      Append(acc.probes, attempt),
                      acc.overflow \/ Overflows(moved)))

\* the fallback without its guard: the zero key is read whatever the loop found
zero_fallback_unguarded(s, T, r) ==
  LET k == from_unsigned_integer(T, ZERO)
      v == Reader_get(s, T, k)
  IN  [r EXCEPT !.greatest = IF r.greatest # None THEN r.greatest
                             ELSE IF v # None THEN Some(<<k, v.val>>) ELSE None,
                !.probes = Append(r.probes, "get")]

\* the fallback of both searches, lines 132-137 and 170-175: get the zero key
zero_fallback(s, T, r) ==
  IF r.greatest = None
  THEN LET k == from_unsigned_integer(T, ZERO)
           v == Reader_get(s, T, k)
       IN  [r EXCEPT !.greatest = IF v # None THEN Some(<<k, v.val>>) ELSE None,
                     !.probes = Append(r.probes, "get")]
  ELSE r

\* find_pred that ignores `inclusive` and always compares with <
find_pred_strict(s, T, key, inclusive) ==
  LET attempt == MAX \div (ONE + ONE) + ONE
  IN  zero_fallback(s, T,
        find_pred_loop(s, T, key, FALSE, attempt, attempt,
                       SearchState(None, <<>>, FALSE)))

find_pred(s, T, key, inclusive) ==
  LET attempt == MAX \div (ONE + ONE) + ONE
  IN  zero_fallback(s, T,
        find_pred_loop(s, T, key, inclusive, attempt, attempt,
                       SearchState(None, <<>>, FALSE)))

\* find_max, lines 155-169: while step != zero
RECURSIVE find_max_loop(_, _, _, _, _)
find_max_loop(s, T, attempt, step0, acc) ==
  IF step0 = ZERO THEN acc
  ELSE
    LET step == step0 \div (ONE + ONE)
        attempt_key == from_unsigned_integer(T, attempt)
        found == Iter_next(s, T, Reader_scan(T, attempt_key)).item
        up == found # None
        moved == IF up THEN attempt + step ELSE attempt - step
    IN  find_max_loop(s, T, Wrap(moved), step,
          SearchState(IF up THEN found ELSE acc.greatest,
                      Append(acc.probes, attempt),
                      acc.overflow \/ Overflows(moved)))

\* find_max that starts its probes at MAX instead of MAX / 2 + 1
find_max_from_MAX(s, T) ==
  zero_fallback(s, T,
    find_max_loop(s, T, MAX, MAX \div (ONE + ONE) + ONE,
                  SearchState(None, <<>>, FALSE)))

\* find_max without the fallback get of the zero key
find_max_no_fallback(s, T) ==
  LET attempt == MAX \div (ONE + ONE) + ONE
  IN  find_max_loop(s, T, attempt, attempt, SearchState(None, <<>>, FALSE))

find_max(s, T) ==
  LET attempt == MAX \div (ONE + ONE) + ONE
  IN  zero_fallback(s, T,
        find_max_loop(s, T, attempt, attempt, SearchState(None, <<>>, FALSE)))

\* Reader::max, Reader::pred_incl, Reader::pred
Reader_max(s, T) == find_max(s, T)
Reader_pred_incl(s, T, key) == find_pred(s, T, key, TRUE)
Reader_pred(s, T, key) == find_pred(s, T, key, FALSE)

---------------------------------------------------------------------------
(* reversible.rs: Writer over a table and its ReverseTable *)

\* reversible::Writer { table, reverse_table }
RevWriter(T, R) == [table |-> T, reverse_table |-> R]

\* Writer::inv that keeps the roles of the two tables
Rev_inv_unswapped(w) == [table |-> w.table, reverse_table |-> w.reverse_table]

\* Writer::inv: the same two tables with the roles swapped
Rev_inv(w) == [table |-> w.reverse_table, reverse_table |-> w.table]

\* Deref of the reversible Writer: the reader of its table
Rev_get(s, w, key) == Reader_get(s, w.table, key)

\* Writer::set without the write of the reverse entry
Rev_set_forward_only(s, w, key, value) ==
  LET key_is_some == Reader_get(s, w.table, key) # None
      value_is_some == Reader_get(s, w.reverse_table, value) # None
  IN  IF key_is_some # value_is_some THEN [store |-> s, ret |-> Panic]
      ELSE [store |-> Writer_set(s, w.table, key, value), ret |-> Ok]

\* Writer::set without the assert_eq! of the two presences
Rev_set_unchecked(s, w, key, value) ==
  [store |-> Writer_set(Writer_set(s, w.table, key, value),
                        w.reverse_table, value, key),
   ret |-> Ok]

\* Writer::set: assert_eq! of the two presences, then the two writes
Rev_set(s, w, key, value) ==
  LET key_is_some == Reader_get(s, w.table, key) # None
      value_is_some == Reader_get(s, w.reverse_table, value) # None
  IN  IF key_is_some # value_is_some THEN [store |-> s, ret |-> Panic]
      ELSE [store |-> Writer_set(Writer_set(s, w.table, key, value),
                                 w.reverse_table, value, key),
            ret |-> Ok]

\* Writer::del without the delete of the reverse entry
Rev_del_forward_only(s, w, key) ==
  LET first == Writer_del(s, w.table, key)
  IN  [store |-> first.store, ret |-> first.ret]

\* Writer::del: delete the key and, when it held a value, the reverse entry
Rev_del(s, w, key) ==
  LET first == Writer_del(s, w.table, key)
  IN  IF first.ret # None
      THEN [store |-> Writer_del(first.store, w.reverse_table, first.ret.val).store,
            ret |-> first.ret]
      ELSE [store |-> first.store, ret |-> None]

---------------------------------------------------------------------------
(* timestamp.rs: Reader, Writer, Iter and IterRange of a Timestamped table *)

\* timestamp::Reader { table, timestamp_table }
TsReader(T, S) == [table |-> T, timestamp_table |-> S]

\* Writer::set without the write of the timestamp entry
Ts_set_primary_only(s, w, key, value) ==
  LET timestamp == value_timestamp(value)
      timestamped_key == TsKey(timestamp, key)
      deleted == Writer_del(s, w.timestamp_table, timestamped_key).store
  IN  Writer_set(deleted, w.table, key, value)

\* Writer::set: delete the timestamp entry of the new value, write the
\* value, write the timestamp entry
Ts_set(s, w, key, value) ==
  LET timestamp == value_timestamp(value)
      timestamped_key == TsKey(timestamp, key)
      deleted == Writer_del(s, w.timestamp_table, timestamped_key).store
      written == Writer_set(deleted, w.table, key, value)
  IN  Writer_set(written, w.timestamp_table, timestamped_key, <<>>)

\* Writer::del without the delete of the timestamp entry
Ts_del_primary_only(s, w, key) ==
  LET first == Writer_del(s, w.table, key)
  IN  [store |-> first.store, ret |-> first.ret]

\* Writer::del: delete the value and the timestamp entry of the value deleted
Ts_del(s, w, key) ==
  LET first == Writer_del(s, w.table, key)
  IN  IF first.ret # None
      THEN LET timestamped_key == TsKey(value_timestamp(first.ret.val), key)
           IN  [store |-> Writer_del(first.store, w.timestamp_table,
                                     timestamped_key).store,
                ret |-> first.ret]
      ELSE [store |-> first.store, ret |-> None]

\* Reader::by_key: the reader of the primary table
Ts_by_key(w) == w.table

\* Reader::scan: iterate the timestamp table from (timestamp, min_key)
Ts_scan(w, timestamp) ==
  [table |-> w.table,
   ts_table |-> w.timestamp_table,
   iter |-> Reader_scan(w.timestamp_table, TsKey(timestamp, UIntMinKey))]

\* Reader::iter: scan from the minimum timestamp
Ts_iter(w) == Ts_scan(w, UnixNanosMinKey)

\* Iter::next without the sanity check: a value of another timestamp is
\* yielded
Ts_Iter_next_unchecked(s, it) ==
  LET r == Iter_next(s, it.ts_table, it.iter)
      moved == [it EXCEPT !.iter = r.iter]
  IN  IF r.item = None THEN [item |-> None, iter |-> moved]
      ELSE LET tk == r.item.val[1]
               value == Reader_get(s, it.table, tk.key)
           IN  IF value = None THEN [item |-> Panic, iter |-> moved]
               ELSE [item |-> Some(<<tk.key, value.val>>), iter |-> moved]

\* Iter::next: the next timestamp entry and the value of its key; a panic
\* when the key has no value or the value another timestamp
Ts_Iter_next(s, it) ==
  LET r == Iter_next(s, it.ts_table, it.iter)
      moved == [it EXCEPT !.iter = r.iter]
  IN  IF r.item = None THEN [item |-> None, iter |-> moved]
      ELSE LET tk == r.item.val[1]
               value == Reader_get(s, it.table, tk.key)
           IN  IF value = None THEN [item |-> Panic, iter |-> moved]
               ELSE IF tk.timestamp # value_timestamp(value.val)
                    THEN [item |-> Panic, iter |-> moved]
               ELSE [item |-> Some(<<tk.key, value.val>>), iter |-> moved]

\* what a caller collects from a timestamp iterator: the items up to the
\* first None, or up to a panic
RECURSIVE Ts_collect(_, _, _)
Ts_collect(s, it, items) ==
  TheOne({IF r.item = None THEN [items |-> items, panic |-> FALSE]
          ELSE IF r.item = Panic THEN [items |-> items, panic |-> TRUE]
          ELSE Ts_collect(s, r.iter, Append(items, r.item.val)) :
          r \in {Ts_Iter_next(s, it)}})

\* a range of timestamps: start_inclusive and end_exclusive, each optional
Range(start, end) == [start_inclusive |-> start, end_exclusive |-> end]

\* Reader::scan_range
Ts_scan_range(w, range) ==
  LET start_inclusive == IF range.start_inclusive = None THEN UnixNanosMinKey
                         ELSE range.start_inclusive.val
  IN  [iter |-> Ts_scan(w, start_inclusive), end_exclusive |-> range.end_exclusive]

\* IterRange::next with the end of the range taken as inclusive
IterRange_next_inclusive_end(s, it) ==
  LET r == Ts_Iter_next(s, it.iter)
      moved == [it EXCEPT !.iter = r.iter]
  IN  IF r.item = None \/ r.item = Panic THEN [item |-> r.item, iter |-> moved]
      ELSE IF /\ it.end_exclusive # None
              /\ it.end_exclusive.val < value_timestamp(r.item.val[2])
           THEN [item |-> None, iter |-> moved]
      ELSE [item |-> r.item, iter |-> moved]

\* IterRange::next: the next item of the scan, None from the first value
\* whose timestamp is not below end_exclusive
IterRange_next(s, it) ==
  LET r == Ts_Iter_next(s, it.iter)
      moved == [it EXCEPT !.iter = r.iter]
  IN  IF r.item = None \/ r.item = Panic THEN [item |-> r.item, iter |-> moved]
      ELSE IF /\ it.end_exclusive # None
              /\ it.end_exclusive.val <= value_timestamp(r.item.val[2])
           THEN [item |-> None, iter |-> moved]
      ELSE [item |-> r.item, iter |-> moved]

RECURSIVE IterRange_collect(_, _, _)
IterRange_collect(s, it, items) ==
  TheOne({IF r.item = None THEN [items |-> items, panic |-> FALSE]
          ELSE IF r.item = Panic THEN [items |-> items, panic |-> TRUE]
          ELSE IterRange_collect(s, r.iter, Append(items, r.item.val)) :
          r \in {IterRange_next(s, it)}})

\* Reader::max: the timestamp of the maximum entry of the timestamp table
Ts_max(s, w) ==
  LET r == Reader_max(s, w.timestamp_table)
  IN  [ret |-> IF r.greatest = None THEN None
               ELSE Some(r.greatest.val[1].timestamp),
       search |-> r]

\* Reader::pred_incl: the timestamp of the entry of the timestamp table that
\* is equal to or precedes (timestamp, min_key)
Ts_pred_incl(s, w, timestamp) ==
  LET timestamped_key == TsKey(timestamp, UIntMinKey)
      r == Reader_pred_incl(s, w.timestamp_table, timestamped_key)
  IN  [ret |-> IF r.greatest = None THEN None
               ELSE Some(r.greatest.val[1].timestamp),
       search |-> r]

\* Timestamp::next for UnixNanos that returns the timestamp itself
Timestamp_next_same(t) == Some(t)

\* Timestamp::next for UnixNanos: checked_add(1), a panic at the maximum
Timestamp_next(t) == IF t = HalfRange - 1 THEN Panic ELSE Some(t + 1)

\* Reader::succ: the timestamp of the first value scanned from time.next()
Ts_succ(s, w, time) ==
  LET next_time == Timestamp_next(time)
  IN  IF next_time = Panic THEN Panic
      ELSE LET r == Ts_Iter_next(s, Ts_scan(w, next_time.val)).item
           IN  IF r = None \/ r = Panic THEN r
               ELSE Some(value_timestamp(r.val[2]))

---------------------------------------------------------------------------
(* Plain tables sharing one tree: TableMid is the table read, TableLo and  *)
(* TableHi are the tables before and behind it in the order of the tree    *)

\* tests/table.rs: const ID of ByteTable
ByteTable == 0

TableLo == Table(ByteTable, "uint", "uint")
TableMid == Table(ByteTable + 1, "uint", "uint")
TableHi == Table(ByteTable + 2, "uint", "uint")
Tables == {TableLo, TableMid, TableHi}

\* the keys written: every key of TableMid, and of its neighbours the key
\* whose physical key is next to the range of TableMid
WriteKeys(T) ==
  IF T = TableMid THEN UInt ELSE IF T = TableLo THEN {MAX} ELSE {ZERO}

\* the values written: two to TableMid, another one to its neighbours
Values == {ONE, MAX - 1}
WriteValues(T) == IF T = TableMid THEN Values ELSE {MAX}

\* the one value written to a table read by binary search
SearchValue(T) == T.id + ONE

EmptyTree == [pk \in {} |-> <<>>]

Init ==
  /\ store = EmptyTree
  /\ last = [op |-> "open"]

\* no table of the tree holds more than MaxEntries entries
Fits(s) ==
  \A pk \in DOMAIN s :
    Cardinality({qk \in DOMAIN s : qk[1] = pk[1]}) <= MaxEntries

\* Writer::set on a plain table
TableSet(T, k, v) ==
  /\ store' = Writer_set(store, T, k, v)
  /\ Fits(store')
  /\ last' = [op |-> "set", table |-> T, key |-> k, value |-> v, ret |-> Ok]

\* Writer::del on a plain table
TableDel(T, k) ==
  LET r == Writer_del(store, T, k)
  IN  /\ store' = r.store
      /\ last' = [op |-> "del", table |-> T, key |-> k, ret |-> r.ret]

\* Reader::iter, collected
TableIter(T) ==
  /\ last' = [op |-> "iter", table |-> T,
              ret |-> Iter_collect(store, T, Reader_iter(T))]
  /\ UNCHANGED store

\* Reader::scan, collected
TableScan(T, k) ==
  /\ last' = [op |-> "scan", table |-> T, key |-> k,
              ret |-> Iter_collect(store, T, Reader_scan(T, k))]
  /\ UNCHANGED store

\* Reader::max
TableMax(T) ==
  LET r == Reader_max(store, T)
  IN  /\ last' = [op |-> "max", table |-> T, ret |-> r.greatest, search |-> r]
      /\ UNCHANGED store

\* Reader::pred_incl
TablePredIncl(T, k) ==
  LET r == Reader_pred_incl(store, T, k)
  IN  /\ last' = [op |-> "pred_incl", table |-> T, key |-> k,
                  ret |-> r.greatest, search |-> r]
      /\ UNCHANGED store

\* Reader::pred
TablePred(T, k) ==
  LET r == Reader_pred(store, T, k)
  IN  /\ last' = [op |-> "pred", table |-> T, key |-> k,
                  ret |-> r.greatest, search |-> r]
      /\ UNCHANGED store

\* the tables written and read by iteration
NextTable ==
  \/ \E T \in Tables : \E k \in WriteKeys(T), v \in WriteValues(T) : TableSet(T, k, v)
  \/ \E T \in Tables : \E k \in WriteKeys(T) : TableDel(T, k)
  \/ TableIter(TableMid)
  \/ \E k \in UInt : TableScan(TableMid, k)

SpecTable == Init /\ [][NextTable]_vars

\* the tables written and read by binary search
NextSearch ==
  \/ \E T \in Tables : \E k \in WriteKeys(T) : TableSet(T, k, SearchValue(T))
  \/ \E T \in Tables : \E k \in WriteKeys(T) : TableDel(T, k)
  \/ TableMax(TableMid)
  \/ \E k \in UInt : TablePredIncl(TableMid, k)
  \/ \E k \in UInt : TablePred(TableMid, k)

SpecSearch == Init /\ [][NextSearch]_vars

---------------------------------------------------------------------------
(* What a table holds, read key by key: the reference the claims compare   *)
(* the iterators and the searches with                                     *)

StoredKeys(T) == {k \in UInt : Reader_get(store, T, k) # None}
EntryAt(T, k) == <<k, Reader_get(store, T, k).val>>
GreatestOf(S) == CHOOSE k \in S : \A j \in S : j <= k
GreatestEntry(T, S) == IF S = {} THEN None ELSE Some(EntryAt(T, GreatestOf(S)))
LastOf(seq) == IF seq = <<>> THEN None ELSE Some(seq[Len(seq)])

\* seq lists exactly the entries of T with a key in S, by ascending key
ListsAscending(seq, T, S) ==
  /\ Len(seq) = Cardinality(S)
  /\ \A i \in 1..Len(seq) : seq[i][1] \in S /\ seq[i] = EntryAt(T, seq[i][1])
  /\ \A i \in 1..(Len(seq) - 1) : seq[i][1] < seq[i + 1][1]

NeighboursHold == StoredKeys(TableLo) # {} /\ StoredKeys(TableHi) # {}

---------------------------------------------------------------------------
(* Claims on the binary search (SpecSearch) *)

\* C4: Reader::max returns the last element of iter(), the entry with the
\* greatest stored key, and none when the table is empty, whatever the
\* tables with smaller and larger ids hold.
C4_MaxIsLastOfIter ==
  last.op = "max" =>
    /\ last.ret = LastOf(Iter_collect(store, last.table, Reader_iter(last.table)))
    /\ last.ret = GreatestEntry(last.table, StoredKeys(last.table))

\* max was called on a table of two entries between two tables that hold
\* entries, and returned the entry with the greater key
C4_Witness ==
  /\ last.op = "max"
  /\ Cardinality(StoredKeys(last.table)) = 2
  /\ NeighboursHold
  /\ last.ret # None
  /\ last.ret.val[1] = GreatestOf(StoredKeys(last.table))

\* C5: Reader::pred(k) returns the entry with the greatest stored key
\* strictly less than k, and none when no stored key is less than k
\* (k = 0 included).
C5_PredIsStrictPredecessor ==
  last.op = "pred" =>
    last.ret = GreatestEntry(last.table,
                 {j \in StoredKeys(last.table) : j < last.key})

\* C6: Reader::pred_incl(k) returns the entry with the greatest stored key
\* less than or equal to k, and none when there is no such key.
C6_PredInclIsPredecessorOrSelf ==
  last.op = "pred_incl" =>
    last.ret = GreatestEntry(last.table,
                 {j \in StoredKeys(last.table) : j <= last.key})

\* pred_incl(k) was called with k stored and a smaller key stored too, and
\* returned the entry at k
C6_Witness ==
  /\ last.op = "pred_incl"
  /\ last.key \in StoredKeys(last.table)
  /\ \E j \in StoredKeys(last.table) : j < last.key
  /\ NeighboursHold
  /\ last.ret = Some(EntryAt(last.table, last.key))

---------------------------------------------------------------------------
(* Claims on iteration (SpecTable) *)

\* C7: iter() and scan(k) on a table yield exactly the entries stored in
\* that table (from k upward for scan), by ascending key, and never an
\* entry of a table with a smaller or a greater id.
C7_IterationIsolated ==
  /\ last.op = "iter" =>
       ListsAscending(last.ret, last.table, StoredKeys(last.table))
  /\ last.op = "scan" =>
       ListsAscending(last.ret, last.table,
                      {j \in StoredKeys(last.table) : j >= last.key})

\* scan(k) was called on a table holding a key below k and a key from k
\* upward, between two tables holding the same logical keys
C7_Witness ==
  /\ last.op = "scan"
  /\ Len(last.ret) = 1
  /\ \E j \in StoredKeys(last.table) : j < last.key
  /\ StoredKeys(TableLo) \cap StoredKeys(last.table) # {}
  /\ StoredKeys(TableHi) \cap StoredKeys(last.table) # {}

---------------------------------------------------------------------------
(* A Reversible pair in a tree of its own, written by a single writer      *)
(* directly and through inv()                                              *)

Forward == Table(ByteTable, "uint", "uint")
Reverse == Table(ByteTable + 1, "uint", "uint")
Pair == RevWriter(Forward, Reverse)

\* the keys and the values of the forward table
RevKeys == {ZERO, ONE}
RevValues == {MAX - 1, MAX}

\* set(key, value) on the writer, or on its inverse when inverse is TRUE
RevSet(inverse, key, value) ==
  LET w == IF inverse THEN Rev_inv(Pair) ELSE Pair
      r == Rev_set(store, w, key, value)
  IN  /\ store' = r.store
      /\ last' = [op |-> "rev_set", inverse |-> inverse, key |-> key,
                  value |-> value, ret |-> r.ret]

\* del(key) on the writer, or on its inverse when inverse is TRUE
RevDel(inverse, key) ==
  LET w == IF inverse THEN Rev_inv(Pair) ELSE Pair
      r == Rev_del(store, w, key)
  IN  /\ store' = r.store
      /\ last' = [op |-> "rev_del", inverse |-> inverse, key |-> key,
                  ret |-> r.ret]

NextRev ==
  \/ \E k \in RevKeys, v \in RevValues : RevSet(FALSE, k, v)
  \/ \E k \in RevKeys, v \in RevValues : RevSet(TRUE, v, k)
  \/ \E k \in RevKeys : RevDel(FALSE, k)
  \/ \E v \in RevValues : RevDel(TRUE, v)

SpecRev == Init /\ [][NextRev]_vars

\* T maps k to v, T' maps v to k
Maps(s, k, v) == Reader_get(s, Forward, k) = Some(v)
MapsBack(s, v, k) == Reader_get(s, Reverse, v) = Some(k)

\* C1: after any sequence of Reversible set and del calls the two tables are
\* mirror images: T maps k to v if and only if T' maps v to k.
C1_MirrorImages ==
  \A k \in UInt, v \in UInt : Maps(store, k, v) <=> MapsBack(store, v, k)

\* set(k, v) breaks the symmetry of the pair: k is mapped to another value
\* or v is mapped back to another key
BreaksSymmetry(s, k, v) ==
  \/ \E u \in UInt : u # v /\ Maps(s, k, u)
  \/ \E j \in UInt : j # k /\ MapsBack(s, v, j)

\* C2: a Reversible set(key, value) that would break the symmetry of the
\* pair aborts instead of writing the pair.
C2_AsymmetricSetAborts ==
  [][\A k \in RevKeys, v \in RevValues :
       (/\ BreaksSymmetry(store, k, v)
        /\ last'.op = "rev_set"
        /\ \/ ~last'.inverse /\ last'.key = k /\ last'.value = v
           \/ last'.inverse /\ last'.key = v /\ last'.value = k)
       => last'.ret = Panic /\ store' = store]_vars

---------------------------------------------------------------------------
(* tests/timestamped.rs: FooTable timestamped by FooTimestampTable, in a   *)
(* tree of its own                                                         *)

\* enum TableId { Foo = 0, FooTimestamp = 1 }
TableId_Foo == 0
TableId_FooTimestamp == 1

FooTable == Table(TableId_Foo, "uint", "foo")
FooTimestampTable == Table(TableId_FooTimestamp, "tskey", "unit")
FooPair == TsReader(FooTable, FooTimestampTable)

\* the keys and the values written: the minimum key and another one, every
\* timestamp, one payload
FooKeys == {ZERO, ONE}
FooData == {<<ONE>>}
FooValues == {Foo(t, d) : t \in UnixNanos, d \in FooData}

\* timestamp::Writer::set
TsSet(k, v) ==
  /\ store' = Ts_set(store, FooPair, k, v)
  /\ Fits(store')
  /\ last' = [op |-> "ts_set", key |-> k, value |-> v, ret |-> Ok]

\* timestamp::Writer::del
TsDel(k) ==
  LET r == Ts_del(store, FooPair, k)
  IN  /\ store' = r.store
      /\ last' = [op |-> "ts_del", key |-> k, ret |-> r.ret]

\* timestamp::Reader::iter, collected
TsIter ==
  /\ last' = [op |-> "ts_iter",
              ret |-> Ts_collect(store, Ts_iter(FooPair), <<>>)]
  /\ UNCHANGED store

\* timestamp::Reader::scan, collected
TsScan(t) ==
  /\ last' = [op |-> "ts_scan", timestamp |-> t,
              ret |-> Ts_collect(store, Ts_scan(FooPair, t), <<>>)]
  /\ UNCHANGED store

NextTs ==
  \/ \E k \in FooKeys, v \in FooValues : TsSet(k, v)
  \/ \E k \in FooKeys : TsDel(k)
  \/ TsIter
  \/ \E t \in UnixNanos : TsScan(t)

SpecTs == Init /\ [][NextTs]_vars

\* what the primary table holds, read key by key
PrimaryKeys == {k \in UInt : Reader_get(store, FooTable, k) # None}
PrimaryValue(k) == Reader_get(store, FooTable, k).val
PrimaryTimestamp(k) == value_timestamp(PrimaryValue(k))
HasTimestampEntry(t, k) == Reader_get(store, FooTimestampTable, TsKey(t, k)) # None

\* the timestamp table mirrors the primary table
Mirrored ==
  \A k \in UInt, t \in UnixNanos :
    HasTimestampEntry(t, k) <=> (k \in PrimaryKeys /\ PrimaryTimestamp(k) = t)

\* seq lists exactly the primary entries with a key in S, by ascending
\* timestamp and, the timestamps equal, by ascending key
ListsByTimestamp(seq, S) ==
  /\ Len(seq) = Cardinality(S)
  /\ \A i \in 1..Len(seq) : seq[i][1] \in S /\ seq[i][2] = PrimaryValue(seq[i][1])
  /\ \A i \in 1..(Len(seq) - 1) :
       \/ value_timestamp(seq[i][2]) < value_timestamp(seq[i + 1][2])
       \/ /\ value_timestamp(seq[i][2]) = value_timestamp(seq[i + 1][2])
          /\ seq[i][1] < seq[i + 1][1]

\* C3: after any sequence of Timestamped set and del calls the timestamp
\* table mirrors the primary table: k holds v if and only if the entry
\* (timestamp(v), k) is in the timestamp table.
C3_TimestampTableMirrors == Mirrored

\* C8: Timestamped scan(ts) yields, without aborting, exactly the primary
\* entries whose timestamp is >= ts, by ascending timestamp and key; iter()
\* yields every primary entry.
C8_ScanYieldsFromTimestamp ==
  /\ last.op = "ts_scan" =>
       /\ ~last.ret.panic
       /\ ListsByTimestamp(last.ret.items,
            {k \in PrimaryKeys : PrimaryTimestamp(k) >= last.timestamp})
  /\ last.op = "ts_iter" =>
       /\ ~last.ret.panic
       /\ ListsByTimestamp(last.ret.items, PrimaryKeys)

---------------------------------------------------------------------------
(* The read operations of a Timestamped table whose timestamp table        *)
(* mirrors the primary table: the tree starts as any table the writer can  *)
(* build by one set per key, and is read only                              *)

\* the tree after set(k, c[k]) for every key k of `keys` that c gives a value
RECURSIVE WriteAll(_, _, _)
WriteAll(s, c, keys) ==
  IF keys = {} THEN s
  ELSE LET k == CHOOSE j \in keys : TRUE
       IN  WriteAll(IF c[k] = None THEN s ELSE Ts_set(s, FooPair, k, c[k]),
                    c, keys \ {k})

InitMirrored ==
  /\ \E c \in [FooKeys -> FooValues \cup {None}] :
       store = WriteAll(EmptyTree, c, FooKeys)
  /\ last = [op |-> "open"]

\* the optional bounds of a range
Bounds == {None} \cup {Some(t) : t \in UnixNanos}

\* timestamp::Reader::scan_range, collected
TsScanRange(range) ==
  /\ last' = [op |-> "ts_scan_range", range |-> range,
              ret |-> IterRange_collect(store, Ts_scan_range(FooPair, range), <<>>)]
  /\ UNCHANGED store

\* timestamp::Reader::max
TsMax ==
  LET r == Ts_max(store, FooPair)
  IN  /\ last' = [op |-> "ts_max", ret |-> r.ret, search |-> r.search]
      /\ UNCHANGED store

\* timestamp::Reader::pred_incl
TsPredIncl(t) ==
  LET r == Ts_pred_incl(store, FooPair, t)
  IN  /\ last' = [op |-> "ts_pred_incl", timestamp |-> t, ret |-> r.ret,
                  search |-> r.search]
      /\ UNCHANGED store

\* timestamp::Reader::succ
TsSucc(t) ==
  /\ last' = [op |-> "ts_succ", timestamp |-> t, ret |-> Ts_succ(store, FooPair, t)]
  /\ UNCHANGED store

NextTsRead ==
  \/ \E lo \in Bounds, hi \in Bounds : TsScanRange(Range(lo, hi))
  \/ TsMax
  \/ \E t \in UnixNanos : TsPredIncl(t)
  \/ \E t \in UnixNanos : TsSucc(t)

SpecTsRead == InitMirrored /\ [][NextTsRead]_vars

InRange(t, range) ==
  /\ range.start_inclusive # None => range.start_inclusive.val <= t
  /\ range.end_exclusive # None => t < range.end_exclusive.val

\* C9: on a mirrored pair scan_range(lo, hi) yields exactly the entries whose
\* timestamp t satisfies lo <= t (lo given) and t < hi (hi given), by
\* ascending timestamp, and nothing when no entry lies in the range.
C9_ScanRangeYieldsRange ==
  last.op = "ts_scan_range" =>
    /\ ~last.ret.panic
    /\ ListsByTimestamp(last.ret.items,
         {k \in PrimaryKeys : InRange(PrimaryTimestamp(k), last.range)})

\* scan_range with both bounds given yielded one of two entries: the other
\* one lies at or above the upper bound
C9_Witness ==
  /\ Mirrored
  /\ last.op = "ts_scan_range"
  /\ last.range.start_inclusive # None
  /\ last.range.end_exclusive # None
  /\ Cardinality(PrimaryKeys) = 2
  /\ Len(last.ret.items) = 1
  /\ \E k \in PrimaryKeys : PrimaryTimestamp(k) >= last.range.end_exclusive.val

\* C10: on a mirrored pair max() returns the greatest timestamp of any entry
\* and none only when the table is empty.
C10_MaxIsGreatestTimestamp ==
  last.op = "ts_max" =>
    last.ret = IF PrimaryKeys = {} THEN None
               ELSE Some(CHOOSE t \in UnixNanos :
                      /\ \E k \in PrimaryKeys : PrimaryTimestamp(k) = t
                      /\ \A k \in PrimaryKeys : PrimaryTimestamp(k) <= t)

\* the timestamps carried by the entries of the primary table
StoredTimestamps == {PrimaryTimestamp(k) : k \in PrimaryKeys}
LeastOf(S) == CHOOSE t \in S : \A u \in S : t <= u
OptionGreatest(S) == IF S = {} THEN None ELSE Some(GreatestOf(S))
OptionLeast(S) == IF S = {} THEN None ELSE Some(LeastOf(S))

\* C11: on a mirrored pair pred_incl(ts) returns the greatest timestamp <= ts
\* carried by any entry, ts itself when some entry of any key carries ts.
C11_PredInclIsGreatestTimestampBelow ==
  last.op = "ts_pred_incl" =>
    last.ret = OptionGreatest({t \in StoredTimestamps : t <= last.timestamp})

\* C12: on a mirrored pair and for ts below the maximum timestamp, succ(ts)
\* returns the smallest timestamp strictly greater than ts carried by any
\* entry, none when there is none, and never ts itself.
C12_SuccIsLeastTimestampAbove ==
  (last.op = "ts_succ" /\ last.timestamp < HalfRange - 1) =>
    last.ret = OptionLeast({t \in StoredTimestamps : t > last.timestamp})

\* succ(ts) was called with two entries carrying ts and returned none
C12_Witness ==
  /\ Mirrored
  /\ last.op = "ts_succ"
  /\ last.timestamp < HalfRange - 1
  /\ Cardinality({k \in PrimaryKeys : PrimaryTimestamp(k) = last.timestamp}) = 2
  /\ last.ret = None

---------------------------------------------------------------------------
(* Claims on single calls of the Reversible writer (SpecRev) *)

\* the writer the last call was made on
LastWriter == IF last.inverse THEN Rev_inv(Pair) ELSE Pair

\* C13: immediately after a Reversible set(k, v) returns successfully,
\* get(k) on the writer returns v and inv().get(v) returns k.
C13_SetThenGetBothWays ==
  (last.op = "rev_set" /\ last.ret = Ok) =>
    /\ Rev_get(store, LastWriter, last.key) = Some(last.value)
    /\ Rev_get(store, Rev_inv(LastWriter), last.value) = Some(last.key)

\* a set on the writer itself returned successfully over an existing pair
C13_Witness ==
  /\ last.op = "rev_set" /\ last.ret = Ok /\ ~last.inverse
  /\ Cardinality(DOMAIN store) = 4
  /\ Rev_get(store, Pair, last.key) = Some(last.value)

\* the two tables are mirror images in the tree s
MirrorImages(s) ==
  \A k \in UInt, v \in UInt : Maps(s, k, v) <=> MapsBack(s, v, k)

\* C14: in a state where the two tables are mirror images, del(k) on a key
\* mapped to v returns v, leaves k absent from T and v absent from T' and
\* every other pair unchanged; del of an absent key returns none and changes
\* neither table.
C14_DelRemovesBothEntries ==
  [][(MirrorImages(store) /\ last'.op = "rev_del") =>
       LET w == IF last'.inverse THEN Rev_inv(Pair) ELSE Pair
           k == last'.key
           held == Rev_get(store, w, k)
       IN  IF held # None
           THEN /\ last'.ret = held
                /\ Rev_get(store', w, k) = None
                /\ Rev_get(store', Rev_inv(w), held.val) = None
                /\ \A j \in UInt \ {k} :
                     Rev_get(store', w, j) = Rev_get(store, w, j)
                /\ \A u \in UInt \ {held.val} :
                     Rev_get(store', Rev_inv(w), u) = Rev_get(store, Rev_inv(w), u)
           ELSE last'.ret = None /\ store' = store]_vars

\* del returned the value of a key of a mirrored pair of tables, and another
\* pair is left in both
C14_Witness ==
  /\ last.op = "rev_del" /\ last.ret # None
  /\ MirrorImages(store)
  /\ Cardinality(DOMAIN store) = 2
  /\ Rev_get(store, LastWriter, last.key) = None
  /\ Rev_get(store, Rev_inv(LastWriter), last.ret.val) = None

---------------------------------------------------------------------------
(* Claims on single calls of the Timestamped writer (SpecTs) *)

\* the tree s without the physical keys of `gone`, every other entry as in s
TreeWithout(s, gone) == [pk \in DOMAIN s \ gone |-> s[pk]]

\* C15: Timestamped del(k) on a key holding v returns v and removes the
\* primary entry of k and the secondary entry (timestamp(v), k), leaving all
\* other entries of both tables unchanged; del of an absent key (a second
\* del(k) included) returns none and changes neither table.
C15_TsDelRemovesBothEntries ==
  [][last'.op = "ts_del" =>
       LET k == last'.key
           held == Reader_get(store, FooTable, k)
       IN  IF held # None
           THEN LET gone == TsKey(value_timestamp(held.val), k)
                IN  /\ last'.ret = held
                    /\ Reader_get(store', FooTable, k) = None
                    /\ Reader_get(store', FooTimestampTable, gone) = None
                    /\ store' = TreeWithout(store,
                                  {write_key(FooTable, k),
                                   write_key(FooTimestampTable, gone)})
           ELSE last'.ret = None /\ store' = store]_vars

\* del returned the value of a key; the key and its timestamp entry are
\* gone, and another entry is left in both tables
C15_Witness ==
  /\ last.op = "ts_del" /\ last.ret # None
  /\ Reader_get(store, FooTable, last.key) = None
  /\ Reader_get(store, FooTimestampTable,
                TsKey(value_timestamp(last.ret.val), last.key)) = None
  /\ Cardinality(PrimaryKeys) = 1
  /\ Mirrored

---------------------------------------------------------------------------
(* Iteration by key: a plain table and the primary table of the Timestamped *)
(* pair, read through by_key(), in one tree                                 *)

\* the values written to the pair: two timestamps, the later one first
OrderTimestamps == {UnixNanosMinKey, UnixNanosMinKey + 1}
OrderValues == {Foo(t, d) : t \in OrderTimestamps, d \in FooData}

\* timestamp::Reader::by_key().iter(), collected
TsByKeyIter ==
  /\ last' = [op |-> "by_key_iter", table |-> Ts_by_key(FooPair),
              ret |-> Iter_collect(store, Ts_by_key(FooPair),
                                   Reader_iter(Ts_by_key(FooPair)))]
  /\ UNCHANGED store

NextOrder ==
  \/ \E k \in UInt : TableSet(TableHi, k, SearchValue(TableHi))
  \/ \E k \in UInt : TableDel(TableHi, k)
  \/ TableIter(TableHi)
  \/ \E k \in FooKeys, v \in OrderValues : TsSet(k, v)
  \/ \E k \in FooKeys : TsDel(k)
  \/ TsByKeyIter

SpecOrder == Init /\ [][NextOrder]_vars

\* C16: after any sequence of set and del, iter() yields every entry stored
\* in the table exactly once, in strictly ascending key order whatever the
\* order of insertion; so does by_key().iter() on the primary table of a
\* Timestamped pair.
C16_IterAscendingByKey ==
  (last.op = "iter" \/ last.op = "by_key_iter") =>
    ListsAscending(last.ret, last.table, StoredKeys(last.table))

\* by_key().iter() yielded two entries of which the first carries the later
\* timestamp, while the plain table holds entries too
C16_Witness ==
  /\ last.op = "by_key_iter"
  /\ Len(last.ret) = 2
  /\ value_timestamp(last.ret[1][2]) > value_timestamp(last.ret[2][2])
  /\ StoredKeys(TableHi) # {}

---------------------------------------------------------------------------
(* Successors: the tables written, TableMid read by scan, succ_incl, succ *)

\* Reader::succ_incl
TableSuccIncl(T, k) ==
  /\ last' = [op |-> "succ_incl", table |-> T, key |-> k,
              ret |-> Reader_succ_incl(store, T, k)]
  /\ UNCHANGED store

\* Reader::succ
TableSucc(T, k) ==
  /\ last' = [op |-> "succ", table |-> T, key |-> k,
              ret |-> Reader_succ(store, T, k)]
  /\ UNCHANGED store

NextSucc ==
  \/ \E T \in Tables : \E k \in WriteKeys(T) : TableSet(T, k, SearchValue(T))
  \/ \E T \in Tables : \E k \in WriteKeys(T) : TableDel(T, k)
  \/ \E k \in UInt : TableScan(TableMid, k)
  \/ \E k \in UInt : TableSuccIncl(TableMid, k)
  \/ \E k \in UInt : TableSucc(TableMid, k)

SpecSucc == Init /\ [][NextSucc]_vars

LeastEntry(T, S) == IF S = {} THEN None ELSE Some(EntryAt(T, LeastOf(S)))

\* C17: for every key k, present or absent, scan(k) yields exactly the
\* entries of the table with a key >= k, ascending, and succ_incl(k) returns
\* the entry with the smallest stored key >= k, none when there is none.
C17_ScanAndSuccInclFromKey ==
  /\ last.op = "scan" =>
       ListsAscending(last.ret, last.table,
                      {j \in StoredKeys(last.table) : j >= last.key})
  /\ last.op = "succ_incl" =>
       last.ret = LeastEntry(last.table,
                             {j \in StoredKeys(last.table) : j >= last.key})

\* succ_incl(k) was called with k absent, a smaller and a greater key stored
\* and both neighbours holding entries, and returned the greater key's entry
C17_Witness ==
  /\ last.op = "succ_incl"
  /\ last.key \notin StoredKeys(last.table)
  /\ \E j \in StoredKeys(last.table) : j < last.key
  /\ NeighboursHold
  /\ last.ret # None
  /\ last.ret.val[1] > last.key

\* C18: for every key k, present or absent, succ(k) returns the entry with
\* the smallest stored key strictly greater than k of the same table, never
\* the entry at k and never an entry of another table, none when no stored
\* key of the table is greater than k.
C18_SuccIsStrictSuccessor ==
  last.op = "succ" =>
    last.ret = LeastEntry(last.table,
                          {j \in StoredKeys(last.table) : j > last.key})

\* succ(k) was called with k the greatest key stored and the table behind
\* holding entries, and returned none
C18_Witness ==
  /\ last.op = "succ"
  /\ last.key \in StoredKeys(last.table)
  /\ StoredKeys(TableHi) # {}
  /\ last.ret = None

---------------------------------------------------------------------------
(* Single calls of the plain Writer: three keys of TableMid and the keys of *)
(* its neighbours are set, deleted and read                                 *)

\* the keys of TableMid written: the least two and the greatest
WrittenKeys == {ZERO, ONE, MAX}

\* Reader::get
TableGet(T, k) ==
  /\ last' = [op |-> "get", table |-> T, key |-> k, ret |-> Reader_get(store, T, k)]
  /\ UNCHANGED store

NextWrite ==
  \/ \E k \in WrittenKeys, v \in Values : TableSet(TableMid, k, v)
  \/ \E T \in {TableLo, TableHi} :
       \E k \in WriteKeys(T), v \in WriteValues(T) : TableSet(T, k, v)
  \/ \E k \in WrittenKeys : TableDel(TableMid, k)
  \/ \E T \in {TableLo, TableHi} : \E k \in WriteKeys(T) : TableDel(T, k)
  \/ \E k \in WrittenKeys : TableGet(TableMid, k)

SpecWrite == Init /\ [][NextWrite]_vars

\* the number of entries iter() yields for the key k of the table T
EntriesFor(s, T, k) ==
  LET items == Iter_collect(s, T, Reader_iter(T))
  IN  Cardinality({i \in DOMAIN items : items[i][1] = k})

\* C19: after set(k, v), get(k) returns v until the next set or del of k in
\* the same table; a later set(k, v2) replaces the value, get(k) returns v2
\* and the table holds exactly one entry for k.
C19_SetThenGet ==
  [][/\ last'.op = "set" =>
          /\ Reader_get(store', last'.table, last'.key) = Some(last'.value)
          /\ EntriesFor(store', last'.table, last'.key) = 1
      /\ \A T \in Tables, k \in UInt :
           \/ last'.op \in {"set", "del"} /\ last'.table = T /\ last'.key = k
           \/ Reader_get(store', T, k) = Reader_get(store, T, k)]_vars

\* set was called on the table between two tables that hold the same key,
\* and the table holds two entries
C19_Witness ==
  /\ last.op = "set" /\ last.table = TableMid
  /\ Reader_get(store, last.table, last.key) = Some(last.value)
  /\ Cardinality(StoredKeys(last.table)) = 2
  /\ StoredKeys(TableLo) \cup StoredKeys(TableHi) # {}

\* C20: del(k) on a present key returns the value stored and removes exactly
\* that entry; del(k) on an absent key (a second del included) returns none
\* and leaves the table unchanged; afterwards get(k) returns none.
C20_DelReturnsAndRemoves ==
  [][last'.op = "del" =>
       /\ last'.ret = Reader_get(store, last'.table, last'.key)
       /\ Reader_get(store', last'.table, last'.key) = None
       /\ store' = TreeWithout(store, {write_key(last'.table, last'.key)})]_vars

\* del returned the value of a key of the table; the key is gone, another
\* entry of the table and the entries of its neighbours are left
C20_Witness ==
  /\ last.op = "del" /\ last.table = TableMid
  /\ last.ret # None
  /\ Reader_get(store, last.table, last.key) = None
  /\ Cardinality(StoredKeys(last.table)) = 1
  /\ NeighboursHold

---------------------------------------------------------------------------
(* Claims on the arithmetic and the length of the binary search (SpecSearch) *)

Searches == {"max", "pred_incl", "pred"}

\* what the loop of the last search recorded, before the fallback
LoopOfLast ==
  LET first == MAX \div (ONE + ONE) + ONE
      start == SearchState(None, <<>>, FALSE)
  IN  IF last.op = "max"
      THEN find_max_loop(store, last.table, first, first, start)
      ELSE find_pred_loop(store, last.table, last.key, last.op = "pred_incl",
                          first, first, start)

\* C21: in find_max and find_pred the probe position stays inside [0, MAX] at
\* every step: no attempt + step exceeds MAX, no attempt - step goes below 0.
C21_AttemptStaysInDomain ==
  last.op \in Searches =>
    /\ ~last.search.overflow
    /\ \A i \in 1..KeyBits : last.search.probes[i] \in UInt

\* max searched upward at every step and probed MAX last
C21_Witness ==
  /\ last.op = "max"
  /\ last.search.probes[KeyBits] = MAX
  /\ ~last.search.overflow

---------------------------------------------------------------------------
(* Claims on the check of the Reversible set (SpecRev) *)

\* C23: Reversible set(key, value) aborts exactly when one of "key is present
\* in T" and "value is present in T'" holds and the other does not; an
\* aborted set leaves both tables unchanged, a set that passes writes
\* key -> value into T and value -> key into T'.
C23_SetAbortsOnUnequalPresence ==
  [][last'.op = "rev_set" =>
       LET w == IF last'.inverse THEN Rev_inv(Pair) ELSE Pair
           key_present == Rev_get(store, w, last'.key) # None
           value_present == Rev_get(store, Rev_inv(w), last'.value) # None
       IN  IF key_present # value_present
           THEN last'.ret = Panic /\ store' = store
           ELSE /\ last'.ret = Ok
                /\ Rev_get(store', w, last'.key) = Some(last'.value)
                /\ Rev_get(store', Rev_inv(w), last'.value) = Some(last'.key)]_vars

\* a set aborted on tables that hold a pair
C23_Witness ==
  /\ last.op = "rev_set" /\ last.ret = Panic
  /\ Rev_get(store, LastWriter, last.key) # None
  /\ Rev_get(store, Rev_inv(LastWriter), last.value) = None

---------------------------------------------------------------------------
(* One Reversible set taken statement by statement, with a reader of the    *)
(* two tables running beside it.  The tree starts as any pair of mirrored   *)
(* tables the writer can build; `last` holds the position of the writer in  *)
(* set and what the reader saw last.                                        *)

\* Writer::set, lines 45-48: the assert_eq! of the two presences passes
Rev_set_check(s, w, key, value) ==
  (Reader_get(s, w.table, key) # None)
    = (Reader_get(s, w.reverse_table, value) # None)

\* the two writes of Writer::set in the other order
Rev_set_write_reverse_first(s, w, key, value, pc) ==
  IF pc = "forward" THEN Writer_set(s, w.reverse_table, value, key)
  ELSE Writer_set(s, w.table, key, value)

\* Writer::set, lines 49 and 50: the write at position pc
Rev_set_write(s, w, key, value, pc) ==
  IF pc = "forward" THEN Writer_set(s, w.table, key, value)
  ELSE Writer_set(s, w.reverse_table, value, key)

\* the tree after set(k, f[k]) for every key k of `keys` that f gives a value
RECURSIVE RevWriteAll(_, _, _)
RevWriteAll(s, f, keys) ==
  IF keys = {} THEN s
  ELSE LET k == CHOOSE j \in keys : TRUE
       IN  RevWriteAll(IF f[k] = None THEN s
                       ELSE Rev_set(s, Pair, k, f[k].val).store,
                       f, keys \ {k})

InitRevSteps ==
  /\ \E f \in [RevKeys -> {Some(v) : v \in RevValues} \cup {None}] :
       /\ \A j, k \in RevKeys : (j # k /\ f[j] # None) => f[j] # f[k]
       /\ store = RevWriteAll(EmptyTree, f, RevKeys)
  /\ last = [op |-> "rev_set", pc |-> "idle", key |-> ZERO, value |-> MAX,
             seen |-> None]

\* the writer enters set(key, value) and evaluates the assert
RevSetCheck(key, value) ==
  /\ last.pc = "idle"
  /\ last' = [last EXCEPT !.key = key, !.value = value,
                          !.pc = IF Rev_set_check(store, Pair, key, value)
                                 THEN "forward" ELSE "aborted"]
  /\ UNCHANGED store

\* the writer makes its next write
RevSetWrite ==
  /\ last.pc \in {"forward", "reverse"}
  /\ store' = Rev_set_write(store, Pair, last.key, last.value, last.pc)
  /\ last' = [last EXCEPT !.pc = IF last.pc = "forward" THEN "reverse" ELSE "done"]

\* the reader gets a key of the forward table
ReaderGetForward(key) ==
  /\ last' = [last EXCEPT !.seen = [table |-> "forward", key |-> key,
                                    ret |-> Reader_get(store, Forward, key)]]
  /\ UNCHANGED store

\* the reader gets a value through inv()
ReaderGetReverse(value) ==
  /\ last' = [last EXCEPT !.seen = [table |-> "reverse", key |-> value,
                                    ret |-> Reader_get(store, Reverse, value)]]
  /\ UNCHANGED store

NextRevSteps ==
  \/ \E k \in RevKeys, v \in RevValues : RevSetCheck(k, v)
  \/ RevSetWrite
  \/ \E k \in RevKeys : ReaderGetForward(k)
  \/ \E v \in RevValues : ReaderGetReverse(v)

SpecRevSteps == InitRevSteps /\ [][NextRevSteps]_vars

\* C24: Reversible set is not atomic, and writes the forward entry first:
\* while one set(k, v) runs beside a reader, the mirror entry v -> k is never
\* in T' unless the forward entry k -> v is in T, and a reader that has seen
\* the mirror entry finds the forward entry in T.
C24_MirrorNeverBeforeForward ==
  last.pc \in {"forward", "reverse", "done"} =>
    /\ MapsBack(store, last.value, last.key) => Maps(store, last.key, last.value)
    /\ (/\ last.seen # None
        /\ last.seen.table = "reverse"
        /\ last.seen.key = last.value
        /\ last.seen.ret = Some(last.key))
       => Maps(store, last.key, last.value)

\* the reader got k -> v from T while the writer stands before its second
\* write: v -> k is not in T' (the tree was empty when set began)
C24_Witness ==
  /\ last.pc = "reverse"
  /\ Cardinality(DOMAIN store) = 1
  /\ last.seen # None
  /\ last.seen.table = "forward"
  /\ last.seen.key = last.key
  /\ last.seen.ret = Some(last.value)
  /\ ~MapsBack(store, last.value, last.key)

---------------------------------------------------------------------------
(* The Timestamped writer taken statement by statement, with an iterator    *)
(* by timestamp running beside it.  The writer never gives an existing key  *)
(* a value of another timestamp.  `last` holds the position of the writer   *)
(* in its call and the state of the iterator.                               *)

\* Writer::set, lines 218-223: the statement at position pc
Ts_set_step(s, w, key, value, pc) ==
  LET timestamped_key == TsKey(value_timestamp(value), key)
  IN  CASE pc = "del_ts" -> Writer_del(s, w.timestamp_table, timestamped_key).store
        [] pc = "set"    -> Writer_set(s, w.table, key, value)
        [] pc = "set_ts" -> Writer_set(s, w.timestamp_table, timestamped_key, <<>>)

\* Writer::del, lines 229-231: the delete of the timestamp entry of `value`
Ts_del_step(s, w, key, value) ==
  Writer_del(s, w.timestamp_table, TsKey(value_timestamp(value), key)).store

\* Iter::next, lines 335-345: the value of the key of the entry visited, a
\* panic when there is none or when it carries another timestamp
Ts_Iter_lookup(s, it, tk) ==
  LET value == Reader_get(s, it.table, tk.key)
  IN  IF value = None THEN Panic
      ELSE IF tk.timestamp # value_timestamp(value.val) THEN Panic
      ELSE Some(<<tk.key, value.val>>)

InitTsSteps ==
  /\ store = EmptyTree
  /\ last = [op |-> "ts_steps", wpc |-> "idle", key |-> ZERO,
             value |-> Foo(UnixNanosMinKey, <<ONE>>),
             it |-> None, pending |-> None, out |-> "idle"]

\* the writer enters set(key, value), which keeps the timestamp of the key,
\* and deletes the timestamp entry
TsSetStart(key, value) ==
  /\ last.wpc = "idle"
  /\ LET held == Reader_get(store, FooTable, key)
     IN  IF held = None THEN TRUE
         ELSE value_timestamp(held.val) = value_timestamp(value)
  /\ store' = Ts_set_step(store, FooPair, key, value, "del_ts")
  /\ last' = [last EXCEPT !.wpc = "set", !.key = key, !.value = value]

\* the writer makes the next write of set
TsSetStep ==
  /\ last.wpc \in {"set", "set_ts"}
  /\ store' = Ts_set_step(store, FooPair, last.key, last.value, last.wpc)
  /\ Fits(store')
  /\ last' = [last EXCEPT !.wpc = IF last.wpc = "set" THEN "set_ts" ELSE "idle"]

\* the writer enters del(key) and deletes the value
TsDelStart(key) ==
  /\ last.wpc = "idle"
  /\ LET r == Writer_del(store, FooTable, key)
     IN  /\ store' = r.store
         /\ last' = IF r.ret = None THEN [last EXCEPT !.key = key]
                    ELSE [last EXCEPT !.wpc = "del_ts", !.key = key,
                                      !.value = r.ret.val]

\* the writer deletes the timestamp entry of the value deleted
TsDelStep ==
  /\ last.wpc = "del_ts"
  /\ store' = Ts_del_step(store, FooPair, last.key, last.value)
  /\ last' = [last EXCEPT !.wpc = "idle"]

\* the reader starts scan(timestamp)
TsIterStart(timestamp) ==
  /\ last.out # "running"
  /\ last' = [last EXCEPT !.it = Ts_scan(FooPair, timestamp),
                          !.pending = None, !.out = "running"]
  /\ UNCHANGED store

\* Iter::next, lines 330-334: the iterator visits the next timestamp entry
TsIterVisit ==
  /\ last.out = "running" /\ last.pending = None
  /\ LET r == Iter_next(store, last.it.ts_table, last.it.iter)
     IN  last' = IF r.item = None
                 THEN [last EXCEPT !.it.iter = r.iter, !.out = "end"]
                 ELSE [last EXCEPT !.it.iter = r.iter,
                                   !.pending = Some(r.item.val[1])]
  /\ UNCHANGED store

\* Iter::next, lines 335-345: the iterator looks up the value of the entry
TsIterLookup ==
  /\ last.out = "running" /\ last.pending # None
  /\ last' = IF Ts_Iter_lookup(store, last.it, last.pending.val) = Panic
             THEN [last EXCEPT !.out = "panic"]
             ELSE [last EXCEPT !.pending = None]
  /\ UNCHANGED store

NextTsSteps ==
  \/ \E k \in FooKeys, v \in OrderValues : TsSetStart(k, v)
  \/ TsSetStep
  \/ \E k \in FooKeys : TsDelStart(k)
  \/ TsDelStep
  \/ \E t \in OrderTimestamps : TsIterStart(t)
  \/ TsIterVisit
  \/ TsIterLookup

SpecTsSteps == InitTsSteps /\ [][NextTsSteps]_vars

\* C25: with a single writer whose set and del calls never change the
\* timestamp of an existing key, an iterator by timestamp running beside the
\* writer never aborts: every timestamp entry it visits has a value of that
\* timestamp when it is looked up.
C25_ConcurrentIterNeverAborts == last.out # "panic"

----------------------------------------------------------------------------
(* Timestamped set and del calls that keep the timestamp of every key: a
   set writes an absent key, or a value of the timestamp the key has *)

\* the payloads written, so that a value can change under one timestamp
SameData == {<<ZERO>>, <<ONE>>}
SameValues == {Foo(t, d) : t \in UnixNanos, d \in SameData}

\* timestamp::Writer::set of a value that does not change the timestamp of
\* the key
TsSetSame(k, v) ==
  LET held == Reader_get(store, FooTable, k)
  IN  /\ IF held = None THEN TRUE
         ELSE value_timestamp(held.val) = value_timestamp(v)
      /\ store' = Ts_set(store, FooPair, k, v)
      /\ Fits(store')
      /\ last' = [op |-> "ts_set", key |-> k, value |-> v, ret |-> Ok]

NextTsSame ==
  \/ \E k \in FooKeys, v \in SameValues : TsSetSame(k, v)
  \/ \E k \in FooKeys : TsDel(k)

SpecTsSame == Init /\ [][NextTsSame]_vars

\* the timestamps under which the timestamp table has an entry for key k
TimestampsOf(k) == {t \in UnixNanos : HasTimestampEntry(t, k)}

\* C26: when no set gives an existing key a value of a different timestamp,
\* the timestamp table mirrors the primary table after every completed call,
\* and a set of the (key, value) already held leaves both tables exactly as
\* they were, with a single timestamp entry for the key.
C26_MirroredWhenTimestampsKept ==
  /\ [](\A k \in UInt, t \in UnixNanos :
          HasTimestampEntry(t, k)
            <=> (Reader_get(store, FooTable, k) # None
                 /\ value_timestamp(Reader_get(store, FooTable, k).val) = t))
  /\ [][(last'.op = "ts_set"
         /\ Reader_get(store, FooTable, last'.key) = Some(last'.value))
        => (/\ store' = store
            /\ TimestampsOf(last'.key)
                 = {value_timestamp(last'.value)})]_vars

\* a set has written again the value a key holds, another key is held too
C26_Witness ==
  /\ last.op = "ts_set"
  /\ Reader_get(store, FooTable, last.key) = Some(last.value)
  /\ TimestampsOf(last.key) = {value_timestamp(last.value)}
  /\ Cardinality(PrimaryKeys) = 2

----------------------------------------------------------------------------
(* The timestamp entries an iterator visits, and the ones it cannot serve *)

\* the entries <<t, k>> of the timestamp table from timestamp `from` on
VisitedFrom(from) ==
  {e \in UnixNanos \X UInt : e[1] >= from /\ HasTimestampEntry(e[1], e[2])}

\* the key of the entry has no value, or a value of another timestamp
Corrupt(e) ==
  LET value == Reader_get(store, FooTable, e[2])
  IN  IF value = None THEN TRUE ELSE value_timestamp(value.val) # e[1]

\* the order of the timestamp table: by timestamp, then by key
EntryBefore(a, b) == a[1] < b[1] \/ (a[1] = b[1] /\ a[2] < b[2])

\* the entries visited before any corrupt one
ServedFrom(from) ==
  {e \in VisitedFrom(from) :
     \A c \in VisitedFrom(from) : Corrupt(c) => EntryBefore(e, c)}

\* ret is what an iterator from `from` gives when it stops at the first
\* corrupt entry with a panic and yields the entries before it in order
AbortsAtCorrupt(ret, from) ==
  /\ ret.panic = (\E c \in VisitedFrom(from) : Corrupt(c))
  /\ Len(ret.items) = Cardinality(ServedFrom(from))
  /\ \A i \in 1..Len(ret.items) :
       /\ <<value_timestamp(ret.items[i][2]), ret.items[i][1]>>
            \in ServedFrom(from)
       /\ Some(ret.items[i][2]) = Reader_get(store, FooTable, ret.items[i][1])
  /\ \A i \in 1..(Len(ret.items) - 1) :
       EntryBefore(<<value_timestamp(ret.items[i][2]), ret.items[i][1]>>,
                   <<value_timestamp(ret.items[i + 1][2]),
                     ret.items[i + 1][1]>>)

\* C27: a timestamp-ordered iterator that visits an entry (ts, k) whose key
\* has no primary value, or a primary value of another timestamp, panics
\* there: it yields exactly the entries before the first such entry, in
\* order, and neither skips the entry nor yields it nor ends normally.
C27_IterAbortsOnCorruptEntry ==
  /\ last.op = "ts_scan" => AbortsAtCorrupt(last.ret, last.timestamp)
  /\ last.op = "ts_iter" => AbortsAtCorrupt(last.ret, UnixNanosMinKey)

\* a scan yielded one entry and then panicked at an entry whose key holds a
\* value of another timestamp
C27_Witness ==
  /\ last.op = "ts_scan"
  /\ last.ret.panic
  /\ Len(last.ret.items) = 1
  /\ \E c \in VisitedFrom(last.timestamp) :
       Corrupt(c) /\ Reader_get(store, FooTable, c[2]) # None

----------------------------------------------------------------------------
(* The place of a table's physical keys in the order of the shared tree *)

\* the physical keys of the entries of table T
PhysicalKeys(T) == {write_key(T, k) : k \in StoredKeys(T)}

\* every physical key of the tree between two physical keys of T is one of T
Contiguous(T) ==
  \A a \in PhysicalKeys(T), b \in PhysicalKeys(T), pk \in DOMAIN store :
    (BytesLess(a, pk) /\ BytesLess(pk, b)) => pk \in PhysicalKeys(T)

\* C28: in every reachable state of a tree shared by tables whose ids
\* encode to the same length, the physical keys of each table are one
\* contiguous range of the tree's ascending order, so an iteration that
\* stops at the first foreign id has yielded every entry of its table.
C28_TableRangesContiguous ==
  /\ \A T \in Tables : Contiguous(T)
  /\ last.op = "iter" =>
       {last.ret[i][1] : i \in 1..Len(last.ret)} = StoredKeys(last.table)

\* the three tables hold entries, the middle one two, and an iteration of
\* the middle one yielded both
C28_Witness ==
  /\ last.op = "iter" /\ Len(last.ret) = 2
  /\ Cardinality(StoredKeys(TableMid)) = 2
  /\ NeighboursHold

----------------------------------------------------------------------------
(* A table in a tree that also holds entries the table cannot serve: the
   tree is written directly as well (tests/sled.rs), with keys and values
   that end too early, and it fails to read some entries *)

\* sled::Tree::set, called on the tree directly
TreeRawSet(kb, vb) ==
  /\ store' = TreeSet(store, kb, vb)
  /\ Fits(store')
  /\ last' = [op |-> "raw_set", key |-> kb, value |-> vb, ret |-> Ok]

\* physical keys with the ID of TableMid and a key that ends too early
ShortKeys ==
  {EncId(TableMid.id) \o SubSeq(EncBE(k), 1, n) :
     k \in WrittenKeys, n \in 0..(KeyBits - 1)}

\* a value that ends too early
ShortValue == SubSeq(EncLE(ONE), 1, KeyBits - 1)

\* the entries written directly
RawEntries ==
  {<<pk, EncLE(ONE)>> : pk \in ShortKeys}
    \cup {<<write_key(TableMid, k), vb>> :
            k \in WrittenKeys, vb \in {ShortValue, IoFailure}}

\* Reader::min
TableMin(T) ==
  /\ last' = [op |-> "min", table |-> T, ret |-> Reader_min(store, T)]
  /\ UNCHANGED store

\* Reader::iter, every item of it
TableIterResults(T) ==
  /\ last' = [op |-> "iter_results", table |-> T, start |-> EncId(T.id),
              ret |-> Iter_results(store, T, Reader_iter(T))]
  /\ UNCHANGED store

\* Reader::scan, every item of it
TableScanResults(T, k) ==
  /\ last' = [op |-> "scan_results", table |-> T, start |-> write_key(T, k),
              ret |-> Iter_results(store, T, Reader_scan(T, k))]
  /\ UNCHANGED store

NextErr ==
  \/ \E k \in WrittenKeys : TableSet(TableMid, k, ONE)
  \/ TableSet(TableHi, ZERO, MAX)
  \/ \E e \in RawEntries : TreeRawSet(e[1], e[2])
  \/ TableMin(TableMid)
  \/ \E k \in WrittenKeys : TableSuccIncl(TableMid, k)
  \/ \E k \in WrittenKeys : TableSucc(TableMid, k)
  \/ TableIterResults(TableMid)
  \/ \E k \in WrittenKeys : TableScanResults(TableMid, k)

SpecErr == Init /\ [][NextErr]_vars

\* the physical keys of the tree from `start` on
RawFrom(start) == {pk \in DOMAIN store : ~BytesLess(pk, start)}

\* the i-th physical key of S in the order of the tree
NthOf(S, i) ==
  CHOOSE pk \in S : Cardinality({qk \in S : BytesLess(qk, pk)}) = i - 1

\* the entry under pk cannot be read, or is one of T whose key or value
\* does not decode
Unservable(T, pk) ==
  \/ store[pk] = IoFailure
  \/ /\ pk[1] = T.id
     /\ (Len(pk) - 1 < KeyBits \/ Len(store[pk]) < KeyBits)

\* the entry under pk is read and carries the ID of another table
Foreign(T, pk) == store[pk] # IoFailure /\ pk[1] # T.id

\* ret is an error exactly when the first entry of S is unservable
ErrAtFirst(T, S, ret) ==
  IF S = {} THEN ret = None
  ELSE (ret.tag = "err") <=> Unservable(T, NthOf(S, 1))

\* C29: min, succ, succ_incl and every step of iter and scan return an
\* error exactly when the entry they visit cannot be read or its key or
\* value does not decode; no such entry is skipped for a later one, and succ
\* returns the error of an undecodable entry stored under its own key.
C29_ErrorsAreReturned ==
  /\ last.op = "min" =>
       ErrAtFirst(last.table, RawFrom(EncId(last.table.id)), last.ret)
  /\ last.op = "succ_incl" =>
       ErrAtFirst(last.table, RawFrom(write_key(last.table, last.key)),
                  last.ret)
  /\ last.op = "succ" =>
       LET own == write_key(last.table, last.key)
           S == RawFrom(own)
       IN  IF own \in S /\ ~Unservable(last.table, own)
           THEN ErrAtFirst(last.table, S \ {own}, last.ret)
           ELSE ErrAtFirst(last.table, S, last.ret)
  /\ last.op \in {"iter_results", "scan_results"} =>
       LET S == RawFrom(last.start)
           ahead == {pk \in S : ~\E qk \in S :
                       Foreign(last.table, qk)
                         /\ (qk = pk \/ BytesLess(qk, pk))}
       IN  /\ Len(last.ret) = Cardinality(ahead)
           /\ \A i \in 1..Len(last.ret) :
                (last.ret[i].tag = "err")
                  <=> Unservable(last.table, NthOf(S, i))

\* succ(k) returned the error of the undecodable entry stored under k while
\* a later entry of the table decodes
C29_Witness ==
  /\ last.op = "succ" /\ last.ret.tag = "err"
  /\ write_key(last.table, last.key) \in DOMAIN store
  /\ Unservable(last.table, write_key(last.table, last.key))
  /\ \E k \in StoredKeys(last.table) :
       /\ k > last.key
       /\ ~Unservable(last.table, write_key(last.table, k))

----------------------------------------------------------------------------
(* The inverse writer against the writer itself *)

\* C30: inv() is a view of the same two tables with the roles swapped: from
\* any state inv().set(v, k) aborts exactly when set(k, v) aborts and
\* otherwise leaves the tree that set(k, v) leaves; on a mirrored pair
\* inv().del(v) leaves the tree that del(k) leaves, k being the key mapped
\* to v; and inv().inv() sets and deletes as the writer itself.
C30_InvIsRoleSwappedView ==
  /\ [](\A k \in RevKeys, v \in RevValues :
          /\ Rev_set(store, Rev_inv(Rev_inv(Pair)), k, v)
               = Rev_set(store, Pair, k, v)
          /\ Rev_del(store, Rev_inv(Rev_inv(Pair)), k)
               = Rev_del(store, Pair, k))
  /\ [][(last'.op = "rev_set" /\ last'.inverse) =>
          LET direct == Rev_set(store, Pair, last'.value, last'.key)
          IN  /\ (last'.ret = Panic) <=> (direct.ret = Panic)
              /\ store' = direct.store]_vars
  /\ [][(last'.op = "rev_del" /\ last'.inverse /\ MirrorImages(store)) =>
          IF last'.ret = None THEN store' = store
          ELSE LET direct == Rev_del(store, Pair, last'.ret.val)
               IN  /\ direct.ret = Some(last'.key)
                   /\ store' = direct.store]_vars

\* inv().set(v, k) has written the pair into both tables
C30_Witness ==
  /\ last.op = "rev_set" /\ last.inverse /\ last.ret = Ok
  /\ Maps(store, last.value, last.key)
  /\ MapsBack(store, last.key, last.value)

----------------------------------------------------------------------------
(* The effect of a write to one table on the tables it shares the tree with *)

\* C31: set(k, v) and del(k) on a table A change at most the physical key
\* id(A) ++ k of the tree, so get, iter and scan on every other table B
\* return after the call what they returned before it, also for keys that
\* A and B have in common.
C31_WriteLeavesOtherTablesUnchanged ==
  [][last'.op \in {"set", "del"} =>
       LET A == last'.table
           own == write_key(A, last'.key)
       IN  /\ \A B \in Tables \ {A} : \A k \in UInt :
                Reader_get(store', B, k) = Reader_get(store, B, k)
           /\ DOMAIN store' \ {own} = DOMAIN store \ {own}
           /\ \A pk \in DOMAIN store \ {own} : store'[pk] = store[pk]
           /\ \A B \in Tables \ {A} :
                /\ Iter_collect(store', B, Reader_iter(B))
                     = Iter_collect(store, B, Reader_iter(B))
                /\ \A k \in UInt :
                     Iter_collect(store', B, Reader_scan(B, k))
                       = Iter_collect(store, B, Reader_scan(B, k))]_vars

\* a set has written the greatest key of the middle table while the table
\* of the smaller id holds a value under the same key and the table of the
\* greater id holds an entry too
C31_Witness ==
  /\ last.op = "set" /\ last.table = TableMid /\ last.key = MAX
  /\ Reader_get(store, TableMid, MAX) = Some(last.value)
  /\ Reader_get(store, TableLo, MAX) = Some(MAX)
  /\ NeighboursHold

====
